---- MODULE Spec2Model ----
(***************************************************************************)
(* State-machine model of src/src/components/MapViewer.tsx: the route      *)
(* planner (points, travel mode, routing requests in flight, the stored    *)
(* itinerary, the step cursor), the VoiceGuidance class and the browser's  *)
(* speech synthesizer it drives, the style buttons and the geolocation     *)
(* button.                                                                 *)
(*                                                                         *)
(* One action stands for one event-loop task: a user event handler         *)
(* together with the React effects its state changes trigger (the route    *)
(* effect of lines 346-350 runs calculateRoute up to its first await), the *)
(* continuation of calculateRoute after the fetch settles, or one          *)
(* callback of an utterance.                                               *)
(*                                                                         *)
(* Modelling conventions:                                                  *)
(*   - null (a React state holding no object) is the empty tuple;          *)
(*     selectingPoint and locationError, string states, use the strings    *)
(*     NoPoint and NoError;                                                *)
(*   - JavaScript's undefined in a string position is Undefined; an object *)
(*     property that is absent is a field that is not in the record's      *)
(*     DOMAIN;                                                             *)
(*   - distances are whole meters, durations whole seconds, coordinates    *)
(*     whole degrees;                                                      *)
(*   - the map (map.current) exists; the start, end and user markers and   *)
(*     the camera, owned by the rendering library, are not state of the    *)
(*     model; of the city markers the model keeps the render their click   *)
(*     handlers belong to.                                                 *)
(***************************************************************************)
EXTENDS Integers, Sequences, FiniteSets, TLC

\* Bounds of the model.
MaxInFlight == 2   \* routing requests in flight at once
MaxLate == 1       \* cancelled utterances whose end/error event is still to come

null == << >>
NoPoint == "null"
NoError == "null"
Undefined == "<undefined>"

TravelModes == {"driving", "cycling", "walking"}

\* The travel modes the user of the model picks.
ModesUsed == {"driving", "walking"}

\* travelModes[mode].profile
Profile(mode) ==
  CASE mode = "driving" -> "driving"
    [] mode = "cycling" -> "cycling"
    [] mode = "walking" -> "foot"

\* pakistanCities (the two the user of the model picks), coordinates in whole degrees.
Islamabad == [name |-> "Islamabad", coordinates |-> <<73, 33>>]

Lahore == [name |-> "Lahore", coordinates |-> <<74, 31>>]

(***************************************************************************)
(* JavaScript helpers.                                                     *)
(***************************************************************************)
\* Truthiness of a string-or-undefined value.
Truthy(v) == v # Undefined /\ v # ""

\* a || b
OrElse(a, b) == IF Truthy(a) THEN a ELSE b

\* obj.field, Undefined when the property is absent
Prop(obj, field) == IF field \in DOMAIN obj THEN obj[field] ELSE Undefined

\* step.maneuver?.field
ManeuverProp(step, field) ==
  IF "maneuver" \in DOMAIN step THEN Prop(step.maneuver, field) ELSE Undefined

\* step.maneuver?.location; the empty tuple stands for undefined
ManeuverLocation(step) ==
  IF "maneuver" \in DOMAIN step /\ "location" \in DOMAIN step.maneuver
  THEN step.maneuver.location ELSE << >>

RECURSIVE Pow2Mod(_, _)
Pow2Mod(k, n) == IF k = 0 THEN 1 % n ELSE (2 * Pow2Mod(k - 1, n)) % n

RECURSIVE Log2Floor(_)
Log2Floor(x) == IF x < 2 THEN 0 ELSE 1 + Log2Floor(x \div 2)

\* Whether the double nearest to meters/1000 is not below meters/1000. The double is
\* M * 2^(p-52) with M the integer nearest to meters * 2^(52-p) / 1000 and
\* p = floor(log2(meters/1000)); the remainder of that division tells the direction of
\* the rounding. (The remainder is a multiple of 8, so it is never 500: no tie.)
DoubleNotBelow(meters) ==
  LET p == Log2Floor(meters \div 1000)
      r == ((meters % 1000) * Pow2Mod(52 - p, 1000)) % 1000
  IN  r = 0 \/ r > 500

\* (meters / 1000).toFixed(1): the tenth nearest to the double, the larger one on a tie
ToFixed1(meters) ==
  LET t == meters \div 100
      rem == meters % 100
      n == IF rem < 50 THEN t
           ELSE IF rem > 50 THEN t + 1
           ELSE IF DoubleNotBelow(meters) THEN t + 1 ELSE t
  IN  ToString(n \div 10) \o "." \o ToString(n % 10)

\* Math.round of a whole number
MathRound(x) == x

\* formatDistance with the kilometres from above 1000 m only.
formatDistance_Above(meters) ==
  IF meters > 1000 THEN ToFixed1(meters) \o " km"
  ELSE ToString(MathRound(meters)) \o " m"

\* formatDistance (lines 569-574)
formatDistance(meters) ==
  IF meters >= 1000 THEN ToFixed1(meters) \o " km"
  ELSE ToString(MathRound(meters)) \o " m"

\* formatDuration with the minutes rounded to the nearest.
formatDuration_Rounded(seconds) ==
  LET hours == seconds \div 3600
      minutes == ((seconds % 3600) + 30) \div 60
  IN  IF hours > 0 THEN ToString(hours) \o "h " \o ToString(minutes) \o "m"
      ELSE ToString(minutes) \o " min"

\* formatDuration (lines 576-584)
formatDuration(seconds) ==
  LET hours == seconds \div 3600
      minutes == (seconds % 3600) \div 60
  IN  IF hours > 0 THEN ToString(hours) \o "h " \o ToString(minutes) \o "m"
      ELSE ToString(minutes) \o " min"

\* formatManeuver without a text of its own in the default case.
formatManeuver_KnownOnly(type, modifier, name) ==
  LET roadName == IF Truthy(name) THEN " onto " \o name ELSE ""
  IN  CASE type = "depart" -> "Start" \o roadName
        [] type = "arrive" -> "You have arrived at your destination"
        [] type = "turn" -> "Turn " \o OrElse(modifier, "slightly") \o roadName
        [] type \in {"continue", "new name"} -> "Continue" \o roadName
        [] type = "merge" -> "Merge " \o OrElse(modifier, "") \o roadName
        [] type = "on ramp" -> "Take the ramp " \o OrElse(modifier, "") \o roadName
        [] type = "off ramp" -> "Take the exit" \o roadName
        [] type = "fork" -> "Keep " \o OrElse(modifier, "straight") \o roadName
        [] type = "end of road" -> "Turn " \o OrElse(modifier, "left") \o roadName
        [] type \in {"roundabout", "rotary"} -> "Enter the roundabout" \o roadName
        [] OTHER -> roadName

formatManeuver(type, modifier, name) ==
  LET roadName == IF Truthy(name) THEN " onto " \o name ELSE ""
  IN  CASE type = "depart" -> "Start" \o roadName
        [] type = "arrive" -> "You have arrived at your destination"
        [] type = "turn" -> "Turn " \o OrElse(modifier, "slightly") \o roadName
        [] type \in {"continue", "new name"} -> "Continue" \o roadName
        [] type = "merge" -> "Merge " \o OrElse(modifier, "") \o roadName
        [] type = "on ramp" -> "Take the ramp " \o OrElse(modifier, "") \o roadName
        [] type = "off ramp" -> "Take the exit" \o roadName
        [] type = "fork" -> "Keep " \o OrElse(modifier, "straight") \o roadName
        [] type = "end of road" -> "Turn " \o OrElse(modifier, "left") \o roadName
        [] type \in {"roundabout", "rotary"} -> "Enter the roundabout" \o roadName
        [] OTHER -> "Continue" \o roadName

(***************************************************************************)
(* The routing service, as calculateRoute sees it.                         *)
(***************************************************************************)
\* The request URL of line 361: the profile and the two coordinates.
RouteUrl(mode, sp, ep) ==
  [profile |-> Profile(mode), from |-> sp.lngLat, to |-> ep.lngLat]

\* The path the service computes depends on the profile: each profile has its own
\* intermediate coordinate.
ViaOf(profile) ==
  CASE profile = "driving" -> <<71, 31>>
    [] profile = "cycling" -> <<72, 32>>
    [] profile = "foot" -> <<72, 31>>

\* The geometry of the service's best route for a URL, and of an alternative.
PathOf(url) ==
  [type |-> "LineString", coordinates |-> <<url.from, ViaOf(url.profile), url.to>>]

AltPathOf(url) ==
  [type |-> "LineString",
   coordinates |-> <<url.from, ViaOf(url.profile), <<75, 35>>, url.to>>]

\* Raw steps as the service sends them.
StepDepart ==
  [maneuver |-> [type |-> "depart", location |-> <<70, 30>>],
   distance |-> 400, duration |-> 60, name |-> "Mall Road"]

StepTurn ==
  [maneuver |-> [type |-> "turn", modifier |-> "left", location |-> <<71, 31>>],
   distance |-> 1000, duration |-> 3900, name |-> ""]

StepPlain == [distance |-> 950, duration |-> 125, name |-> "Canal Road"]

\* Route candidates the service may return for a URL: one whose top-level distance is
\* not the sum of its steps, one with a leg that has no steps field, one without legs.
CandidateRoutes(url) ==
  { [distance |-> 1500, duration |-> 4000, geometry |-> PathOf(url),
     legs |-> << [steps |-> <<StepDepart, StepTurn>>] >>],
    [distance |-> 950, duration |-> 125, geometry |-> AltPathOf(url),
     legs |-> << [summary |-> ""], [steps |-> <<StepPlain>>] >>],
    [distance |-> 20, duration |-> 5, geometry |-> PathOf(url)] }

RECURSIVE SeqsUpTo(_, _)
SeqsUpTo(S, n) ==
  IF n = 0 THEN { << >> }
  ELSE LET shorter == SeqsUpTo(S, n - 1)
       IN  shorter \cup { Append(q, x) : q \in shorter, x \in S }

MaxCandidates == 2   \* route candidates in one response

\* How a fetch may settle: the promise rejects (network failure, a body that is not
\* JSON), or it yields a JSON body: a code and the route candidates, or a body without
\* a routes property.
Rejected == [rejected |-> TRUE]

Outcomes(url) ==
  {Rejected}
    \cup { [code |-> "Ok", routes |-> rs] : rs \in SeqsUpTo(CandidateRoutes(url), MaxCandidates) }
    \cup { [code |-> "NoRoute", routes |-> rs] : rs \in SeqsUpTo(CandidateRoutes(url), 1) }
    \cup { [code |-> "Ok"], [code |-> "InvalidQuery", message |-> "bad"] }

\* A response of the service that carries a route: the code is "Ok" and there is at
\* least one candidate. Any other outcome of the fetch is a failed build.
ResponseOk(outcome) ==
  /\ "code" \in DOMAIN outcome
  /\ outcome.code = "Ok"
  /\ "routes" \in DOMAIN outcome
  /\ outcome.routes # << >>

\* The test of line 366 without the comparison of the code.
IsSuccess_AnyCode(outcome) ==
  /\ "routes" \in DOMAIN outcome
  /\ Len(outcome.routes) > 0

\* Line 366. Reading data.routes.length of a body without routes throws, which the
\* catch of line 417 handles like any failure.
IsSuccess(outcome) ==
  /\ "rejected" \notin DOMAIN outcome
  /\ outcome.code = "Ok"
  /\ "routes" \in DOMAIN outcome
  /\ Len(outcome.routes) > 0

(***************************************************************************)
(* calculateRoute: from the response to the RouteInfo (lines 367-397).     *)
(***************************************************************************)
\* The object pushed, with the instruction always synthesized.
NavigationStep_Synthesized(step) ==
  [instruction |->
     formatManeuver(ManeuverProp(step, "type"), ManeuverProp(step, "modifier"),
                    Prop(step, "name")),
   distance |-> step.distance,
   duration |-> step.duration,
   maneuver |-> [type |-> OrElse(ManeuverProp(step, "type"), "continue"),
                 modifier |-> ManeuverProp(step, "modifier"),
                 location |-> ManeuverLocation(step)],
   name |-> OrElse(Prop(step, "name"), "Unnamed road")]

\* The object pushed at lines 376-386.
NavigationStep(step) ==
  [instruction |->
     OrElse(ManeuverProp(step, "instruction"),
            formatManeuver(ManeuverProp(step, "type"), ManeuverProp(step, "modifier"),
                           Prop(step, "name"))),
   distance |-> step.distance,
   duration |-> step.duration,
   maneuver |-> [type |-> OrElse(ManeuverProp(step, "type"), "continue"),
                 modifier |-> ManeuverProp(step, "modifier"),
                 location |-> ManeuverLocation(step)],
   name |-> OrElse(Prop(step, "name"), "Unnamed road")]

\* The steps of a leg, pushed last to first.
LegSteps_Reversed(leg) ==
  IF "steps" \in DOMAIN leg
  THEN [i \in 1..Len(leg.steps) |-> NavigationStep(leg.steps[Len(leg.steps) + 1 - i])]
  ELSE << >>

\* leg.steps.forEach(push) for a leg with steps, nothing otherwise (lines 374-388)
LegSteps(leg) ==
  IF "steps" \in DOMAIN leg
  THEN [i \in 1..Len(leg.steps) |-> NavigationStep(leg.steps[i])]
  ELSE << >>

RECURSIVE FlattenLegs(_)
FlattenLegs(legs) ==
  IF legs = << >> THEN << >> ELSE LegSteps(Head(legs)) \o FlattenLegs(Tail(legs))

\* Lines 371-390
ExtractSteps(route) ==
  IF "legs" \in DOMAIN route /\ Len(route.legs) > 0 THEN FlattenLegs(route.legs) ELSE << >>

\* The sum of the distances of the steps.
RECURSIVE SumDistance(_)
SumDistance(steps) ==
  IF steps = << >> THEN 0 ELSE Head(steps).distance + SumDistance(Tail(steps))

\* routeData with the distance and the duration recomputed from the steps.
BuildRouteData_Recomputed(data) ==
  LET route == data.routes[1]
      steps == ExtractSteps(route)
  IN  [distance |-> SumDistance(steps),
       duration |-> route.duration,
       geometry |-> route.geometry,
       steps |-> steps]

\* routeData with the geometry of the last candidate.
BuildRouteData_Mixed(data) ==
  LET route == data.routes[1]
  IN  [distance |-> route.distance,
       duration |-> route.duration,
       geometry |-> data.routes[Len(data.routes)].geometry,
       steps |-> ExtractSteps(route)]

\* Lines 367-397: routeData, built from data.routes[0]
BuildRouteData(data) ==
  LET route == data.routes[1]
  IN  [distance |-> route.distance,
       duration |-> route.duration,
       geometry |-> route.geometry,
       steps |-> ExtractSteps(route)]

(***************************************************************************)
(* State.                                                                  *)
(***************************************************************************)
VARIABLES
  isRoutingMode,       \* React state, lines 206-217
  startPoint,
  endPoint,
  routeInfo,
  isCalculatingRoute,
  travelMode,
  selectingPoint,
  voiceEnabled,
  showSteps,
  currentStepIndex,
  enabled,             \* VoiceGuidance.enabled
  speaking,            \* VoiceGuidance.speaking
  synthQueue,          \* speechSynthesis: the utterances handed to it and not yet over,
                       \* each with whether its start event has fired
  synthLate,           \* cancelled utterances whose end/error event has not fired yet
  inflight,            \* the URLs of the fetches that have not settled, oldest first
  routeSource,         \* the geometry of the map's "route" source, null without one
  received,            \* the response the last task handled, null if none: whether the
                       \* service answered "Ok" with a route and, if so, the first
                       \* route and the number of routes
  fetched,             \* the URLs the last task passed to fetch, in order
  synthCalls,          \* the calls the last task made on speechSynthesis, in order
  activeStyle,         \* state of the component (line 199)
  isLocating,          \* state of the component (line 202)
  locationError,       \* state of the component (line 203): NoError or a message
  geolocation,         \* whether the browser has navigator.geolocation
  locating,            \* calls of getCurrentPosition that have not called back
  markersOf,           \* the render whose isRoutingMode and selectingPoint the click
                       \* handlers of the city markers on the map have captured
  styleLoading,        \* the "styledata" callbacks registered and not run, each with
                       \* the state its handleStyleChange has captured
  redrawTimers         \* the geometries of the timers of line 651 that have not fired

pointVars == <<startPoint, endPoint, selectingPoint>>
vars == <<isRoutingMode, startPoint, endPoint, routeInfo, isCalculatingRoute, travelMode,
          selectingPoint, voiceEnabled, showSteps, currentStepIndex, enabled, speaking,
          synthQueue, synthLate, inflight, routeSource, fetched, synthCalls, received,
          activeStyle, isLocating, locationError, geolocation, locating,
          markersOf, styleLoading, redrawTimers>>

\* The map style whose button the user of the model clicks (lines 43-56).
StylesUsed == {"satellite"}

\* What the map view, the geolocation and the style change keep, but for the markers.
mapVars == <<activeStyle, isLocating, locationError, geolocation, locating,
             styleLoading, redrawTimers>>

\* map.isStyleLoaded(): no style set by handleStyleChange is still loading.
StyleLoaded(loading) == loading = << >>

\* What a click handler of a city marker captures (line 610).
Captured(routing, selecting) == [isRoutingMode |-> routing, selectingPoint |-> selecting]

\* The effect of lines 631-635, run after a render in which isRoutingMode or
\* selectingPoint changed: the city markers are replaced by those of the render, when
\* the style is loaded.
MarkersEffect ==
  markersOf' = IF /\ StyleLoaded(styleLoading')
                  /\ <<isRoutingMode', selectingPoint'>> # <<isRoutingMode, selectingPoint>>
               THEN Captured(isRoutingMode', selectingPoint')
               ELSE markersOf

Init ==
  /\ isRoutingMode = FALSE
  /\ startPoint = null
  /\ endPoint = null
  /\ routeInfo = null
  /\ isCalculatingRoute = FALSE
  /\ travelMode = "driving"
  /\ selectingPoint = NoPoint
  /\ voiceEnabled = TRUE
  /\ showSteps = FALSE
  /\ currentStepIndex = 0
  /\ enabled = TRUE
  /\ speaking = FALSE
  /\ synthQueue = << >>
  /\ synthLate = 0
  /\ inflight = << >>
  /\ routeSource = null
  /\ fetched = << >>
  /\ synthCalls = << >>
  /\ received = null
  /\ activeStyle = "streets"
  /\ isLocating = FALSE
  /\ locationError = NoError
  /\ geolocation = TRUE
  /\ locating = 0
  /\ markersOf = Captured(isRoutingMode, selectingPoint)
  /\ styleLoading = << >>
  /\ redrawTimers = << >>

\* The user of the model routes from Islamabad to Lahore: a click that sets the end
\* point is on Lahore (its marker, or the map at its position), any other click on
\* Islamabad.
PlacePicked == IF selectingPoint = "end" THEN Lahore ELSE Islamabad

MapClickCoords == { PlacePicked.coordinates }

CitiesClicked == { PlacePicked }

(***************************************************************************)
(* VoiceGuidance and the speech synthesizer.                               *)
(***************************************************************************)
\* speechSynthesis.cancel(): the queue is emptied; every utterance removed from it gets
\* its end or error event later.
SynthCancel(queue) == << >>

LateAfterCancel(queue, late) == late + Len(queue)

\* The entries of synthCalls.
CancelCall(queue) == [call |-> "cancel", removed |-> Len(queue)]

SpeakCall(text) == [call |-> "speak", text |-> text]

\* The bound on synthLate: a task that cancels is taken only while the count stays
\* within MaxLate.
CancelFits == synthLate + Len(synthQueue) <= MaxLate

\* speak without the cancel of line 151: the utterance is queued behind the others.
speak_Queued(text) ==
  IF ~enabled \/ speaking
  THEN /\ UNCHANGED <<synthQueue, synthLate>>
       /\ synthCalls' = << >>
  ELSE /\ synthQueue' = Append(synthQueue, [started |-> FALSE])
       /\ synthLate' = synthLate
       /\ synthCalls' = <<SpeakCall(text)>>

\* VoiceGuidance.speak (lines 147-170)
speak(text) ==
  IF ~enabled \/ speaking
  THEN /\ UNCHANGED <<synthQueue, synthLate>>
       /\ synthCalls' = << >>
  ELSE /\ synthQueue' = Append(SynthCancel(synthQueue), [started |-> FALSE])
       /\ synthLate' = LateAfterCancel(synthQueue, synthLate)
       /\ synthCalls' = <<CancelCall(synthQueue), SpeakCall(text)>>

\* VoiceGuidance.isEnabled (lines 180-182)
isEnabled == enabled

\* stop without the reset of the speaking flag of line 186.
stop_KeepsFlag ==
  /\ synthQueue' = SynthCancel(synthQueue)
  /\ synthLate' = LateAfterCancel(synthQueue, synthLate)
  /\ synthCalls' = <<CancelCall(synthQueue)>>
  /\ UNCHANGED speaking

\* VoiceGuidance.stop (lines 184-187)
stop ==
  /\ synthQueue' = SynthCancel(synthQueue)
  /\ synthLate' = LateAfterCancel(synthQueue, synthLate)
  /\ synthCalls' = <<CancelCall(synthQueue)>>
  /\ speaking' = FALSE

\* toggle without the cancel of line 175.
toggle_NoCancel ==
  /\ enabled' = ~enabled
  /\ UNCHANGED <<synthQueue, synthLate>>
  /\ synthCalls' = << >>

\* VoiceGuidance.toggle (lines 172-178)
toggle ==
  /\ enabled' = ~enabled
  /\ IF ~enabled'
     THEN /\ synthQueue' = SynthCancel(synthQueue)
          /\ synthLate' = LateAfterCancel(synthQueue, synthLate)
          /\ synthCalls' = <<CancelCall(synthQueue)>>
     ELSE /\ UNCHANGED <<synthQueue, synthLate>>
          /\ synthCalls' = << >>

\* utterance.onstart of the utterance at the head of the queue (line 165)
UtteranceStart ==
  /\ UNCHANGED mapVars
  /\ received' = null
  /\ synthQueue # << >>
  /\ ~Head(synthQueue).started
  /\ synthQueue' = <<[Head(synthQueue) EXCEPT !.started = TRUE]>> \o Tail(synthQueue)
  /\ speaking' = TRUE
  /\ synthCalls' = << >>
  /\ fetched' = << >>
  /\ UNCHANGED <<isRoutingMode, pointVars, routeInfo, isCalculatingRoute, inflight,
                 travelMode, voiceEnabled, showSteps, currentStepIndex, enabled,
                 synthLate, routeSource>>
  /\ MarkersEffect

\* utterance.onend of the utterance being spoken (line 166)
UtteranceEnd ==
  /\ UNCHANGED mapVars
  /\ received' = null
  /\ synthQueue # << >>
  /\ Head(synthQueue).started
  /\ synthQueue' = Tail(synthQueue)
  /\ speaking' = FALSE
  /\ synthCalls' = << >>
  /\ fetched' = << >>
  /\ UNCHANGED <<isRoutingMode, pointVars, routeInfo, isCalculatingRoute, inflight,
                 travelMode, voiceEnabled, showSteps, currentStepIndex, enabled,
                 synthLate, routeSource>>
  /\ MarkersEffect

\* utterance.onerror of the utterance at the head of the queue: synthesis failed
\* before or while it was spoken (line 167)
UtteranceError ==
  /\ UNCHANGED mapVars
  /\ received' = null
  /\ synthQueue # << >>
  /\ synthQueue' = Tail(synthQueue)
  /\ speaking' = FALSE
  /\ synthCalls' = << >>
  /\ fetched' = << >>
  /\ UNCHANGED <<isRoutingMode, pointVars, routeInfo, isCalculatingRoute, inflight,
                 travelMode, voiceEnabled, showSteps, currentStepIndex, enabled,
                 synthLate, routeSource>>
  /\ MarkersEffect

\* The end or error event of a cancelled utterance (lines 166-167)
LateUtteranceEvent ==
  /\ UNCHANGED mapVars
  /\ received' = null
  /\ synthLate > 0
  /\ synthLate' = synthLate - 1
  /\ speaking' = FALSE
  /\ synthCalls' = << >>
  /\ fetched' = << >>
  /\ UNCHANGED <<isRoutingMode, pointVars, routeInfo, isCalculatingRoute, inflight,
                 travelMode, voiceEnabled, showSteps, currentStepIndex, enabled,
                 synthQueue, routeSource>>
  /\ MarkersEffect

(***************************************************************************)
(* The route planner.                                                      *)
(***************************************************************************)
\* calculateRoute without the setRouteInfo(null) of line 356.
calculateRoute_KeepsItinerary(sp, ep, mode) ==
  IF sp = null \/ ep = null
  THEN /\ UNCHANGED <<routeInfo, isCalculatingRoute, inflight>>
       /\ fetched' = << >>
  ELSE /\ isCalculatingRoute' = TRUE
       /\ UNCHANGED routeInfo
       /\ inflight' = Append(inflight, RouteUrl(mode, sp, ep))
       /\ fetched' = <<RouteUrl(mode, sp, ep)>>

\* calculateRoute up to its first await (lines 352-363): the guard, the two state
\* updates and the fetch.
calculateRoute(sp, ep, mode) ==
  IF sp = null \/ ep = null
  THEN /\ UNCHANGED <<routeInfo, isCalculatingRoute, inflight>>
       /\ fetched' = << >>
  ELSE /\ isCalculatingRoute' = TRUE
       /\ routeInfo' = null
       /\ inflight' = Append(inflight, RouteUrl(mode, sp, ep))
       /\ fetched' = <<RouteUrl(mode, sp, ep)>>

\* The effect run only when a dependency differs in value from the one before.
RouteEffect_ByValue(depsChanged, sp, ep, mode) ==
  IF (sp # startPoint \/ ep # endPoint \/ mode # travelMode) /\ sp # null /\ ep # null
  THEN calculateRoute(sp, ep, mode)
  ELSE /\ UNCHANGED <<routeInfo, isCalculatingRoute, inflight>>
       /\ fetched' = << >>

\* The effect of lines 346-350, run after a render in which one of its dependencies
\* (the startPoint object, the endPoint object, travelMode) is a new value.
RouteEffect(depsChanged, sp, ep, mode) ==
  IF depsChanged /\ sp # null /\ ep # null
  THEN calculateRoute(sp, ep, mode)
  ELSE /\ UNCHANGED <<routeInfo, isCalculatingRoute, inflight>>
       /\ fetched' = << >>

\* The bound on inflight: a task that sends a request is taken only while there is room.
RequestFits(sp, ep) == (sp # null /\ ep # null) => Len(inflight) < MaxInFlight

\* What speak would do is within the bound on synthLate.
SpeakFits == (enabled /\ ~speaking) => CancelFits

\* handleMapClick (lines 273-285) and the effects of the render that follows
handleMapClick(lngLat) ==
  /\ UNCHANGED mapVars
  /\ received' = null
  /\ IF ~isRoutingMode \/ selectingPoint = NoPoint
     THEN /\ UNCHANGED <<pointVars, routeInfo, isCalculatingRoute, inflight>>
          /\ fetched' = << >>
     ELSE /\ IF selectingPoint = "start"
             THEN /\ startPoint' = [lngLat |-> lngLat]
                  /\ selectingPoint' = "end"
                  /\ UNCHANGED endPoint
             ELSE /\ endPoint' = [lngLat |-> lngLat]
                  /\ selectingPoint' = NoPoint
                  /\ UNCHANGED startPoint
          /\ RequestFits(startPoint', endPoint')
          /\ RouteEffect(TRUE, startPoint', endPoint', travelMode)
  /\ synthCalls' = << >>
  /\ UNCHANGED <<isRoutingMode, travelMode, voiceEnabled, showSteps, currentStepIndex,
                 enabled, speaking, synthQueue, synthLate, routeSource>>
  /\ MarkersEffect

\* The click handler of a city marker (lines 609-620) and the effects of the render
\* that follows. The handler reads the isRoutingMode and the selectingPoint of the
\* render that added the markers (MarkersEffect, styledata).
cityClick(city) ==
  /\ UNCHANGED mapVars
  /\ received' = null
  /\ IF markersOf.isRoutingMode /\ markersOf.selectingPoint # NoPoint
     THEN /\ IF markersOf.selectingPoint = "start"
             THEN /\ startPoint' = [lngLat |-> city.coordinates, name |-> city.name]
                  /\ selectingPoint' = "end"
                  /\ UNCHANGED endPoint
             ELSE /\ endPoint' = [lngLat |-> city.coordinates, name |-> city.name]
                  /\ selectingPoint' = NoPoint
                  /\ UNCHANGED startPoint
          /\ RequestFits(startPoint', endPoint')
          /\ RouteEffect(TRUE, startPoint', endPoint', travelMode)
     ELSE /\ UNCHANGED <<pointVars, routeInfo, isCalculatingRoute, inflight>>
          /\ fetched' = << >>
  /\ synthCalls' = << >>
  /\ UNCHANGED <<isRoutingMode, travelMode, voiceEnabled, showSteps, currentStepIndex,
                 enabled, speaking, synthQueue, synthLate, routeSource>>
  /\ MarkersEffect

\* A travel mode button (lines 832-834), shown in the routing panel
setTravelMode(mode) ==
  /\ UNCHANGED mapVars
  /\ received' = null
  /\ isRoutingMode
  /\ travelMode' = mode
  /\ RequestFits(startPoint, endPoint) \/ mode = travelMode
  /\ RouteEffect(mode # travelMode, startPoint, endPoint, mode)
  /\ synthCalls' = << >>
  /\ UNCHANGED <<isRoutingMode, pointVars, voiceEnabled, showSteps, currentStepIndex,
                 enabled, speaking, synthQueue, synthLate, routeSource>>
  /\ MarkersEffect

\* The X button of the start point (lines 871-882)
clearStartPoint ==
  /\ UNCHANGED mapVars
  /\ received' = null
  /\ isRoutingMode
  /\ startPoint # null
  /\ startPoint' = null
  /\ selectingPoint' = "start"
  /\ RouteEffect(TRUE, startPoint', endPoint, travelMode)
  /\ synthCalls' = << >>
  /\ UNCHANGED <<isRoutingMode, endPoint, travelMode, voiceEnabled, showSteps,
                 currentStepIndex, enabled, speaking, synthQueue, synthLate, routeSource>>
  /\ MarkersEffect

\* The X button of the end point (lines 910-921)
clearEndPoint ==
  /\ UNCHANGED mapVars
  /\ received' = null
  /\ isRoutingMode
  /\ endPoint # null
  /\ endPoint' = null
  /\ selectingPoint' = "end"
  /\ RouteEffect(TRUE, startPoint, endPoint', travelMode)
  /\ synthCalls' = << >>
  /\ UNCHANGED <<isRoutingMode, startPoint, travelMode, voiceEnabled, showSteps,
                 currentStepIndex, enabled, speaking, synthQueue, synthLate, routeSource>>
  /\ MarkersEffect

\* A click on the start point box (line 860)
selectStartBox ==
  /\ UNCHANGED mapVars
  /\ received' = null
  /\ isRoutingMode
  /\ selectingPoint' = IF startPoint = null THEN "start" ELSE selectingPoint
  /\ synthCalls' = << >>
  /\ fetched' = << >>
  /\ UNCHANGED <<isRoutingMode, startPoint, endPoint, routeInfo, isCalculatingRoute,
                 inflight, travelMode, voiceEnabled, showSteps, currentStepIndex,
                 enabled, speaking, synthQueue, synthLate, routeSource>>
  /\ MarkersEffect

\* A click on the end point box (line 899)
selectEndBox ==
  /\ UNCHANGED mapVars
  /\ received' = null
  /\ isRoutingMode
  /\ selectingPoint' = IF startPoint # null /\ endPoint = null THEN "end" ELSE selectingPoint
  /\ synthCalls' = << >>
  /\ fetched' = << >>
  /\ UNCHANGED <<isRoutingMode, startPoint, endPoint, routeInfo, isCalculatingRoute,
                 inflight, travelMode, voiceEnabled, showSteps, currentStepIndex,
                 enabled, speaking, synthQueue, synthLate, routeSource>>
  /\ MarkersEffect

\* clearRoute (lines 508-529). laterSelecting is the value a setSelectingPoint that the
\* caller makes after the call leaves in selectingPoint, Undefined when there is none.
\* The route effect runs after it with both points null and does nothing.
clearRoute(laterSelecting) ==
  /\ routeSource' = null
  /\ startPoint' = null
  /\ endPoint' = null
  /\ routeInfo' = null
  /\ selectingPoint' = IF laterSelecting = Undefined THEN "start" ELSE laterSelecting
  /\ showSteps' = FALSE
  /\ currentStepIndex' = 0
  /\ stop
  /\ fetched' = << >>
  /\ UNCHANGED <<isCalculatingRoute, inflight, enabled>>

\* The Clear Route button (lines 1059-1069)
clearRouteClick ==
  /\ UNCHANGED mapVars
  /\ received' = null
  /\ isRoutingMode
  /\ startPoint # null \/ endPoint # null
  /\ CancelFits
  /\ clearRoute(Undefined)
  /\ UNCHANGED <<isRoutingMode, travelMode, voiceEnabled>>
  /\ MarkersEffect

\* toggleRoutingMode without the clearRoute() of line 534.
toggleRoutingMode_KeepsRoute ==
  /\ UNCHANGED mapVars
  /\ received' = null
  /\ isRoutingMode' = ~isRoutingMode
  /\ selectingPoint' = IF isRoutingMode THEN NoPoint ELSE "start"
  /\ fetched' = << >>
  /\ synthCalls' = << >>
  /\ UNCHANGED <<startPoint, endPoint, routeInfo, isCalculatingRoute, inflight,
                 showSteps, currentStepIndex, enabled, speaking, synthQueue,
                 synthLate, routeSource>>
  /\ UNCHANGED <<travelMode, voiceEnabled>>
  /\ MarkersEffect

\* toggleRoutingMode (lines 531-540): the Route button and the panel's X button
toggleRoutingMode ==
  /\ UNCHANGED mapVars
  /\ received' = null
  /\ IF isRoutingMode
     THEN /\ CancelFits
          /\ isRoutingMode' = FALSE
          /\ clearRoute(NoPoint)
     ELSE /\ isRoutingMode' = TRUE
          /\ selectingPoint' = "start"
          /\ fetched' = << >>
          /\ synthCalls' = << >>
          /\ UNCHANGED <<startPoint, endPoint, routeInfo, isCalculatingRoute, inflight,
                         showSteps, currentStepIndex, enabled, speaking, synthQueue,
                         synthLate, routeSource>>
  /\ UNCHANGED <<travelMode, voiceEnabled>>
  /\ MarkersEffect

\* The itinerary panel (lines 927-1053) shows its controls when no request is being
\* calculated and an itinerary is stored.
ItineraryShown == isRoutingMode /\ ~isCalculatingRoute /\ routeInfo # null

\* The distance and the duration the panel shows for the itinerary (lines 951, 962).
PanelDistance == formatDistance(routeInfo.distance)

PanelDuration == formatDuration(routeInfo.duration)

\* toggleVoice (lines 542-547), the Voice button
toggleVoice ==
  /\ UNCHANGED mapVars
  /\ received' = null
  /\ ItineraryShown
  /\ enabled => CancelFits
  /\ toggle
  /\ voiceEnabled' = enabled'
  /\ fetched' = << >>
  /\ UNCHANGED <<isRoutingMode, pointVars, routeInfo, isCalculatingRoute, inflight,
                 travelMode, showSteps, currentStepIndex, speaking, routeSource>>
  /\ MarkersEffect

\* The Steps button (line 987)
toggleSteps ==
  /\ UNCHANGED mapVars
  /\ received' = null
  /\ ItineraryShown
  /\ showSteps' = ~showSteps
  /\ synthCalls' = << >>
  /\ fetched' = << >>
  /\ UNCHANGED <<isRoutingMode, pointVars, routeInfo, isCalculatingRoute, inflight,
                 travelMode, voiceEnabled, currentStepIndex, enabled, speaking,
                 synthQueue, synthLate, routeSource>>
  /\ MarkersEffect

\* The indices of the steps the list shows (line 1010)
StepIndices == IF routeInfo = null THEN {} ELSE 0..(Len(routeInfo.steps) - 1)

\* speakStep that narrates the instruction without the distance.
speakStep_InstructionOnly(step) ==
  IF isEnabled
  THEN speak(step.instruction)
  ELSE /\ UNCHANGED <<synthQueue, synthLate>>
       /\ synthCalls' = << >>

\* speakStep (lines 549-553)
speakStep(step) ==
  IF isEnabled
  THEN speak(step.instruction \o ". " \o formatDistance(step.distance))
  ELSE /\ UNCHANGED <<synthQueue, synthLate>>
       /\ synthCalls' = << >>

\* goToStep (lines 555-567), the click on a step of the list (line 1017); index counts
\* from 0 as in the code
goToStep(index) ==
  /\ UNCHANGED mapVars
  /\ received' = null
  /\ ItineraryShown
  /\ showSteps
  /\ index \in StepIndices
  /\ SpeakFits
  /\ currentStepIndex' = index
  /\ speakStep(routeInfo.steps[index + 1])
  /\ fetched' = << >>
  /\ UNCHANGED <<isRoutingMode, pointVars, routeInfo, isCalculatingRoute, inflight,
                 travelMode, voiceEnabled, showSteps, enabled, speaking, routeSource>>
  /\ MarkersEffect

\* drawRoute (lines 456-506): the "route" source is replaced by one with the geometry
drawRoute(geometry) == routeSource' = geometry

RemoveAt(q, k) == SubSeq(q, 1, k - 1) \o SubSeq(q, k + 1, Len(q))

\* The text of line 414
Announcement(route, steps) ==
  "Route calculated. " \o formatDistance(route.distance) \o " total. First, "
    \o steps[1].instruction

\* A response handler that stores the itinerary only when the response is the one of
\* the current (start, end, mode).
routeResponse_CurrentOnly(k, outcome) ==
  /\ UNCHANGED mapVars
  /\ received' = IF ResponseOk(outcome)
                 THEN [ok |-> TRUE, route |-> outcome.routes[1],
                       candidates |-> Len(outcome.routes)]
                 ELSE [ok |-> FALSE]
  /\ inflight' = RemoveAt(inflight, k)
  /\ IF /\ IsSuccess(outcome)
        /\ startPoint # null /\ endPoint # null
        /\ inflight[k] = RouteUrl(travelMode, startPoint, endPoint)
     THEN LET routeData == BuildRouteData(outcome)
          IN  /\ (Len(routeData.steps) > 0) => SpeakFits
              /\ routeInfo' = routeData
              /\ drawRoute(routeData.geometry)
              /\ IF Len(routeData.steps) > 0 /\ isEnabled
                 THEN speak(Announcement(outcome.routes[1], routeData.steps))
                 ELSE /\ UNCHANGED <<synthQueue, synthLate>>
                      /\ synthCalls' = << >>
     ELSE /\ synthCalls' = << >>
          /\ UNCHANGED <<routeInfo, routeSource, synthQueue, synthLate>>
  /\ isCalculatingRoute' = FALSE
  /\ fetched' = << >>
  /\ UNCHANGED <<isRoutingMode, pointVars, travelMode, voiceEnabled, showSteps,
                 currentStepIndex, enabled, speaking>>
  /\ MarkersEffect

\* A response handler that sends the request again when the build failed.
routeResponse_Retry(k, outcome) ==
  /\ UNCHANGED mapVars
  /\ received' = IF ResponseOk(outcome)
                 THEN [ok |-> TRUE, route |-> outcome.routes[1],
                       candidates |-> Len(outcome.routes)]
                 ELSE [ok |-> FALSE]
  /\ inflight' = IF IsSuccess(outcome) THEN RemoveAt(inflight, k)
                ELSE Append(RemoveAt(inflight, k), inflight[k])
  /\ IF IsSuccess(outcome)
     THEN LET routeData == BuildRouteData(outcome)
          IN  /\ (Len(routeData.steps) > 0) => SpeakFits
              /\ routeInfo' = routeData
              /\ drawRoute(routeData.geometry)
              /\ IF Len(routeData.steps) > 0 /\ isEnabled
                 THEN speak(Announcement(outcome.routes[1], routeData.steps))
                 ELSE /\ UNCHANGED <<synthQueue, synthLate>>
                      /\ synthCalls' = << >>
     ELSE /\ synthCalls' = << >>
          /\ UNCHANGED <<routeInfo, routeSource, synthQueue, synthLate>>
  /\ isCalculatingRoute' = FALSE
  /\ fetched' = IF IsSuccess(outcome) THEN << >> ELSE <<inflight[k]>>
  /\ UNCHANGED <<isRoutingMode, pointVars, travelMode, voiceEnabled, showSteps,
                 currentStepIndex, enabled, speaking>>
  /\ MarkersEffect

\* calculateRoute after the fetch of request k settled with the outcome (lines 364-421)
routeResponse(k, outcome) ==
  /\ UNCHANGED mapVars
  /\ received' = IF ResponseOk(outcome)
                 THEN [ok |-> TRUE, route |-> outcome.routes[1],
                       candidates |-> Len(outcome.routes)]
                 ELSE [ok |-> FALSE]
  /\ inflight' = RemoveAt(inflight, k)
  /\ IF IsSuccess(outcome)
     THEN LET routeData == BuildRouteData(outcome)
          IN  /\ (Len(routeData.steps) > 0) => SpeakFits
              /\ routeInfo' = routeData
              /\ drawRoute(routeData.geometry)
              /\ IF Len(routeData.steps) > 0 /\ isEnabled
                 THEN speak(Announcement(outcome.routes[1], routeData.steps))
                 ELSE /\ UNCHANGED <<synthQueue, synthLate>>
                      /\ synthCalls' = << >>
     ELSE /\ synthCalls' = << >>
          /\ UNCHANGED <<routeInfo, routeSource, synthQueue, synthLate>>
  /\ isCalculatingRoute' = FALSE
  /\ fetched' = << >>
  /\ UNCHANGED <<isRoutingMode, pointVars, travelMode, voiceEnabled, showSteps,
                 currentStepIndex, enabled, speaking>>
  /\ MarkersEffect

Next ==
  \/ \E lngLat \in MapClickCoords : handleMapClick(lngLat)
  \/ \E city \in CitiesClicked : cityClick(city)
  \/ \E mode \in ModesUsed : setTravelMode(mode)
  \/ clearStartPoint
  \/ clearEndPoint
  \/ selectStartBox
  \/ selectEndBox
  \/ clearRouteClick
  \/ toggleRoutingMode
  \/ toggleVoice
  \/ toggleSteps
  \/ \E index \in StepIndices : goToStep(index)
  \/ \E k \in 1..Len(inflight) : \E outcome \in Outcomes(inflight[k]) : routeResponse(k, outcome)
  \/ UtteranceStart
  \/ UtteranceEnd
  \/ UtteranceError
  \/ LateUtteranceEvent

Spec == Init /\ [][Next]_vars

(***************************************************************************)
(* One build, answered by any response of the service: the specification   *)
(* under which the construction of the itinerary and the texts made from   *)
(* it are examined over ranges of distances, durations, legs and steps.    *)
(***************************************************************************)
MaxMeters == 2100    \* the distances of the routes, in meters

MaxSeconds == 7300   \* the durations of the routes, in seconds

MaxLegs == 3         \* the legs of a route

\* The record with the one field, or without any when the value is undefined.
Field(field, v) == IF v = Undefined THEN << >> ELSE field :> v

\* The maneuver types formatManeuver knows, and one of the service's that it does not.
ManeuverTypes ==
  {"depart", "arrive", "turn", "continue", "new name", "merge", "on ramp", "off ramp",
   "fork", "end of road", "roundabout", "rotary", "notification"}

RawManeuvers ==
  { Field("type", t) @@ Field("modifier", m) @@ Field("instruction", i)
      @@ [location |-> <<73, 33>>] :
    t \in ManeuverTypes \cup {Undefined},
    m \in {Undefined, "left"},
    i \in {Undefined, "", "Head north"} }

RawSteps ==
  { Field("name", n) @@ [distance |-> 120, duration |-> 30] :
    n \in {Undefined, "", "Mall Road"} }
  \cup
  { Field("name", n) @@ [maneuver |-> mv, distance |-> 120, duration |-> 30] :
    n \in {Undefined, "", "Mall Road"}, mv \in RawManeuvers }

\* The legs of the service's routes: one without a steps field, one without steps, one
\* with a step, one with the same step twice, one with two steps.
RawLegs ==
  { [summary |-> ""],
    [steps |-> << >>],
    [steps |-> <<StepDepart>>],
    [steps |-> <<StepTurn, StepTurn>>],
    [steps |-> <<StepPlain, StepDepart>>] }

BuildRoutes(url) ==
  { [distance |-> m, duration |-> 125, geometry |-> PathOf(url),
     legs |-> << [steps |-> <<StepDepart>>] >>] : m \in 0..MaxMeters }
  \cup
  { [distance |-> 950, duration |-> sec, geometry |-> PathOf(url),
     legs |-> << [steps |-> <<StepDepart>>] >>] : sec \in 0..MaxSeconds }
  \cup
  { [distance |-> 1500, duration |-> 4000, geometry |-> PathOf(url), legs |-> legs] :
    legs \in SeqsUpTo(RawLegs, MaxLegs) }
  \cup
  { [distance |-> 1500, duration |-> 4000, geometry |-> PathOf(url),
     legs |-> << [steps |-> <<step>>] >>] : step \in RawSteps }
  \cup
  { [distance |-> 1500, duration |-> 4000, geometry |-> PathOf(url)] }

BuildOutcomes(url) == { [code |-> "Ok", routes |-> <<route>>] : route \in BuildRoutes(url) }

\* Routing mode was switched on and the map clicked twice: the request of the build is
\* in flight.
BuildInit ==
  /\ isRoutingMode = TRUE
  /\ startPoint = [lngLat |-> Islamabad.coordinates]
  /\ endPoint = [lngLat |-> Lahore.coordinates]
  /\ routeInfo = null
  /\ isCalculatingRoute = TRUE
  /\ travelMode = "driving"
  /\ selectingPoint = NoPoint
  /\ voiceEnabled = TRUE
  /\ showSteps = FALSE
  /\ currentStepIndex = 0
  /\ enabled = TRUE
  /\ speaking = FALSE
  /\ synthQueue = << >>
  /\ synthLate = 0
  /\ inflight = <<RouteUrl("driving", startPoint, endPoint)>>
  /\ routeSource = null
  /\ fetched = inflight
  /\ synthCalls = << >>
  /\ received = null
  /\ activeStyle = "streets"
  /\ isLocating = FALSE
  /\ locationError = NoError
  /\ geolocation = TRUE
  /\ locating = 0
  /\ markersOf = Captured(isRoutingMode, selectingPoint)
  /\ styleLoading = << >>
  /\ redrawTimers = << >>

NextBuild ==
  \E k \in 1..Len(inflight) : \E outcome \in BuildOutcomes(inflight[k]) :
    routeResponse(k, outcome)

SpecBuild == BuildInit /\ [][NextBuild]_vars

(***************************************************************************)
(* The map view: the style buttons and the "My Location" button, next to   *)
(* the route planner.                                                      *)
(***************************************************************************)
MaxStyleLoading == 1   \* style changes whose "styledata" callback has not run
MaxRedraw == 1         \* timers of line 651 that have not fired

\* What handleStyleChange sees of the render it belongs to (lines 642-652).
StyleClosure == [routeInfo |-> routeInfo, markers |-> Captured(isRoutingMode, selectingPoint)]

\* A task that leaves the route planner and the narration alone.
PlannerUnchanged ==
  /\ received' = null
  /\ fetched' = << >>
  /\ synthCalls' = << >>
  /\ UNCHANGED <<isRoutingMode, pointVars, routeInfo, isCalculatingRoute, travelMode,
                 voiceEnabled, showSteps, currentStepIndex, enabled, speaking,
                 synthQueue, synthLate, inflight>>

\* A style button (lines 1081, 637-654), shown when routing mode is off. The callback
\* of line 642 waits for the "styledata" event.
handleStyleChange(style) ==
  /\ ~isRoutingMode
  /\ Len(styleLoading) < MaxStyleLoading
  /\ activeStyle' = style
  /\ styleLoading' = Append(styleLoading, StyleClosure)
  /\ PlannerUnchanged
  /\ UNCHANGED <<routeSource, isLocating, locationError, geolocation,
                 locating, redrawTimers, markersOf>>

\* The geometries the callbacks of the closures redraw 100 ms later (lines 650-652).
RECURSIVE Redraws(_)
Redraws(closures) ==
  IF closures = << >> THEN << >>
  ELSE (IF Head(closures).routeInfo # null
        THEN <<Head(closures).routeInfo.geometry>>
        ELSE << >>) \o Redraws(Tail(closures))

\* The "styledata" event (lines 642-653): the new style has replaced the old one and
\* the route source and layers with it; every callback registered with once() runs.
\* addCityMarkers is the one of the render of the click.
styledata ==
  /\ styleLoading # << >>
  /\ Len(redrawTimers) + Len(Redraws(styleLoading)) <= MaxRedraw
  /\ styleLoading' = << >>
  /\ markersOf' = styleLoading[Len(styleLoading)].markers
  /\ routeSource' = null
  /\ redrawTimers' = redrawTimers \o Redraws(styleLoading)
  /\ PlannerUnchanged
  /\ UNCHANGED <<activeStyle, isLocating, locationError, geolocation, locating>>

\* A timer of line 651 fires: drawRoute with the geometry of the closure.
redrawRoute ==
  /\ redrawTimers # << >>
  /\ drawRoute(Head(redrawTimers))
  /\ redrawTimers' = Tail(redrawTimers)
  /\ PlannerUnchanged
  /\ UNCHANGED <<activeStyle, isLocating, locationError, geolocation,
                 locating, styleLoading, markersOf>>

\* The "My Location" button (lines 1142-1143, 689-728), disabled while isLocating.
handleLocateUser ==
  /\ ~isLocating
  /\ IF ~geolocation
     THEN /\ locationError' = "Geolocation is not supported"
          /\ UNCHANGED <<isLocating, locating>>
     ELSE /\ isLocating' = TRUE
          /\ locationError' = NoError
          /\ locating' = locating + 1
  /\ PlannerUnchanged
  /\ UNCHANGED <<routeSource, activeStyle, geolocation, styleLoading,
                 redrawTimers, markersOf>>

\* Where the browser may find the user, and what it may report instead.
Positions == { Islamabad.coordinates }
PositionErrors == { "User denied Geolocation" }

\* A success callback that moves the cursor on to the next step of the itinerary.
locateSuccess_Advances(position) ==
  /\ locating > 0
  /\ locating' = locating - 1
  /\ isLocating' = FALSE
  /\ currentStepIndex' = IF currentStepIndex + 1 \in StepIndices
                         THEN currentStepIndex + 1
                         ELSE currentStepIndex
  /\ received' = null
  /\ fetched' = << >>
  /\ synthCalls' = << >>
  /\ UNCHANGED <<isRoutingMode, pointVars, routeInfo, isCalculatingRoute, travelMode,
                 voiceEnabled, showSteps, enabled, speaking, synthQueue, synthLate,
                 inflight>>
  /\ UNCHANGED <<routeSource, activeStyle, locationError, geolocation, styleLoading,
                 redrawTimers, markersOf>>

\* The success callback of getCurrentPosition (lines 699-716): the map shows the
\* position, and the state of the component changes in isLocating only.
locateSuccess(position) ==
  /\ locating > 0
  /\ locating' = locating - 1
  /\ isLocating' = FALSE
  /\ PlannerUnchanged
  /\ UNCHANGED <<routeSource, activeStyle, locationError, geolocation, styleLoading,
                 redrawTimers, markersOf>>

\* An error callback without the setIsLocating(false) of line 719.
locateError_StaysLocating(message) ==
  /\ locating > 0
  /\ locating' = locating - 1
  /\ locationError' = message
  /\ UNCHANGED isLocating
  /\ PlannerUnchanged
  /\ UNCHANGED <<routeSource, activeStyle, geolocation, styleLoading,
                 redrawTimers, markersOf>>

\* The error callback of getCurrentPosition (lines 717-720)
locateError(message) ==
  /\ locating > 0
  /\ locating' = locating - 1
  /\ locationError' = message
  /\ isLocating' = FALSE
  /\ PlannerUnchanged
  /\ UNCHANGED <<routeSource, activeStyle, geolocation, styleLoading,
                 redrawTimers, markersOf>>

\* The responses of the service in the specification of the map view: the fetch fails,
\* or the service answers with one route of two steps.
MapOutcomes(url) ==
  { Rejected,
    [code |-> "Ok",
     routes |-> << [distance |-> 1500, duration |-> 4000, geometry |-> PathOf(url),
                    legs |-> << [steps |-> <<StepDepart, StepTurn>>] >>] >>] }

MaxMapInFlight == 1   \* requests in flight in the specification of the map view

\* The travel mode whose button the user clicks in the specification of the map view.
MapModesUsed == {"walking"}

\* The request of the task is within the bound.
MapRequestFits == Len(inflight') <= MaxMapInFlight

\* The state after construction, in a browser with or without geolocation.
InitMap ==
  /\ isRoutingMode = FALSE
  /\ startPoint = null
  /\ endPoint = null
  /\ routeInfo = null
  /\ isCalculatingRoute = FALSE
  /\ travelMode = "driving"
  /\ selectingPoint = NoPoint
  /\ voiceEnabled = TRUE
  /\ showSteps = FALSE
  /\ currentStepIndex = 0
  /\ enabled = TRUE
  /\ speaking = FALSE
  /\ synthQueue = << >>
  /\ synthLate = 0
  /\ inflight = << >>
  /\ routeSource = null
  /\ fetched = << >>
  /\ synthCalls = << >>
  /\ received = null
  /\ activeStyle = "streets"
  /\ isLocating = FALSE
  /\ locationError = NoError
  /\ geolocation \in BOOLEAN
  /\ locating = 0
  /\ markersOf = Captured(isRoutingMode, selectingPoint)
  /\ styleLoading = << >>
  /\ redrawTimers = << >>

NextMap ==
  \/ \E lngLat \in MapClickCoords : handleMapClick(lngLat) /\ MapRequestFits
  \/ \E city \in CitiesClicked : cityClick(city) /\ MapRequestFits
  \/ \E mode \in MapModesUsed : setTravelMode(mode) /\ MapRequestFits
  \/ clearStartPoint
  \/ clearEndPoint
  \/ selectStartBox
  \/ selectEndBox
  \/ clearRouteClick
  \/ toggleRoutingMode
  \/ toggleVoice
  \/ toggleSteps
  \/ \E index \in StepIndices : goToStep(index)
  \/ \E k \in 1..Len(inflight) : \E outcome \in MapOutcomes(inflight[k]) : routeResponse(k, outcome)
  \/ UtteranceStart
  \/ UtteranceEnd
  \/ UtteranceError
  \/ LateUtteranceEvent
  \/ \E style \in StylesUsed : handleStyleChange(style)
  \/ styledata
  \/ redrawRoute
  \/ handleLocateUser
  \/ \E position \in Positions : locateSuccess(position)
  \/ \E message \in PositionErrors : locateError(message)

SpecMap == InitMap /\ [][NextMap]_vars

(***************************************************************************)
(* Vocabulary of the properties.                                           *)
(***************************************************************************)
BothSet == startPoint # null /\ endPoint # null

CurrentUrl == RouteUrl(travelMode, startPoint, endPoint)

\* The profile a geometry of the service was computed for.
ProfileOfGeometry(geometry) ==
  CHOOSE p \in {Profile(m) : m \in TravelModes} : ViaOf(p) = geometry.coordinates[2]

\* The panel shows an itinerary that was computed for another travel mode.
ShowsOtherModesItinerary ==
  ItineraryShown /\ ProfileOfGeometry(routeInfo.geometry) # Profile(travelMode)

\* A click on the button of another travel mode while both points are set.
ModeSwitch(mode) == setTravelMode(mode) /\ mode # travelMode /\ BothSet

LegsHaveStep(route) ==
  /\ "legs" \in DOMAIN route
  /\ \E i \in 1..Len(route.legs) :
       "steps" \in DOMAIN route.legs[i] /\ route.legs[i].steps # << >>

(***************************************************************************)
(* C1. Clearing either point removes the itinerary and resets the cursor.  *)
(***************************************************************************)
\* C1: after each of the three clearing actions (the start point's X button, the end
\* point's X button, Clear Route) routeInfo is null and currentStepIndex is 0.
C1_ClearingRemovesItinerary ==
  [][(clearStartPoint \/ clearEndPoint \/ clearRouteClick)
       => (routeInfo' = null /\ currentStepIndex' = 0)]_vars

(***************************************************************************)
(* C2. Switching the travel mode.                                          *)
(***************************************************************************)
\* While the request for the current triple is pending, the panel does not show an
\* itinerary computed for another mode.
NoOtherModeWhilePending ==
  (BothSet /\ \E k \in 1..Len(inflight) : inflight[k] = CurrentUrl)
    => ~ShowsOtherModesItinerary

C3_ItineraryNeedsBothPoints ==
  (startPoint = null \/ endPoint = null) => routeInfo = null

(***************************************************************************)
(* C4. A failing build.                                                    *)
(***************************************************************************)
Failed(response) == response # null /\ ~response.ok

Complete(info) == info = null \/ DOMAIN info = {"distance", "duration", "geometry", "steps"}

\* C4 as stated: a failing build ends with routeInfo null and isCalculatingRoute false,
\* and no partial itinerary is stored.
C4_FailureLeavesNull ==
  [][Failed(received')
       => (routeInfo' = null /\ ~isCalculatingRoute' /\ Complete(routeInfo'))]_vars

\* C4 as amended: a failing build stores nothing and ends with isCalculatingRoute
\* false: routeInfo and the route line are as they were when the failure arrived.
\* routeInfo is then null if no response has arrived since the latest request was sent
\* (isCalculatingRoute was still true); otherwise it is what the response of another
\* request, in flight at the same time, stored. No partial itinerary is ever stored.
C4_FailureStoresNothing ==
  [][/\ Failed(received')
          => /\ routeInfo' = routeInfo
             /\ routeSource' = routeSource
             /\ ~isCalculatingRoute'
             /\ isCalculatingRoute => routeInfo' = null
     /\ Complete(routeInfo')]_vars

\* A build that replaced a displayed itinerary (its line is still on the map) failed:
\* both points are set, nothing is in flight and no itinerary is stored.
C4_Witness ==
  /\ Failed(received)
  /\ BothSet
  /\ inflight = << >>
  /\ ~isCalculatingRoute
  /\ routeInfo = null
  /\ routeSource # null

(***************************************************************************)
(* C5. Requests in flight are not cancelled; the last response wins.       *)
(***************************************************************************)
\* C5: no task but its own response removes a request from those in flight, and a
\* successful response stores its itinerary whatever the current (start, end, mode)
\* is, so that the response of a superseded request, arriving last, leaves routeInfo
\* with the itinerary of the old triple.
C5_LastWriterWins ==
  [][/\ IF received' # null
        THEN \E k \in 1..Len(inflight) : inflight' = RemoveAt(inflight, k)
        ELSE /\ Len(inflight') >= Len(inflight)
             /\ SubSeq(inflight', 1, Len(inflight)) = inflight
     /\ (received' # null /\ received'.ok)
          => /\ routeInfo' # null
             /\ routeInfo'.geometry = received'.route.geometry]_vars

\* Every response has arrived, the superseded request's last and with a route:
\* routeInfo holds the itinerary of another travel mode than the current one, with
\* both points set.
C5_Witness ==
  /\ received # null
  /\ received.ok
  /\ BothSet
  /\ inflight = << >>
  /\ routeInfo # null
  /\ ProfileOfGeometry(routeInfo.geometry) # Profile(travelMode)

(***************************************************************************)
(* C6. The step cursor on itinerary creation.                              *)
(***************************************************************************)
\* C6: in the state right after a successful routing response stores a new routeInfo,
\* currentStepIndex is 0.
C6_CursorZeroOnCreation ==
  [][(received' # null /\ received'.ok) => currentStepIndex' = 0]_vars

(***************************************************************************)
(* C7. Narration of the selected step.                                     *)
(***************************************************************************)
\* The narration of a step: its instruction and its formatted distance (line 551).
StepText(step) == step.instruction \o ". " \o formatDistance(step.distance)

SpeakCalls(calls) == { i \in 1..Len(calls) : calls[i].call = "speak" }

C8_DisabledIsSilent ==
  ~enabled => (synthQueue = << >> /\ SpeakCalls(synthCalls) = {})

\* Narration was just switched off while an utterance was in flight: the task called
\* cancel, which removed the utterance.
C8_Witness ==
  /\ ~enabled
  /\ synthCalls = <<[call |-> "cancel", removed |-> 1]>>
  /\ synthQueue = << >>

(***************************************************************************)
(* C9. At most one utterance in flight.                                    *)
(***************************************************************************)
\* A task makes a narration request while narration is enabled: a step is selected,
\* or a response with a route that has a step arrives.
NarrationRequest ==
  /\ enabled
  /\ \/ \E index \in StepIndices : goToStep(index)
     \/ received' # null /\ received'.ok /\ LegsHaveStep(received'.route)

\* C9 as stated: at most one utterance is in flight, and a narration request made
\* while one is in flight, started or not, is dropped: the synthesizer is not called.
C9_DroppedWhileInFlight ==
  [][/\ Len(synthQueue') <= 1
     /\ (NarrationRequest /\ synthQueue # << >>)
          => (synthCalls' = << >> /\ synthQueue' = synthQueue)]_vars

\* C9 as amended: at most one utterance is in flight. A narration request made while
\* the speaking flag is true is dropped. One made while the flag is false cancels the
\* utterance in flight, if any, and hands the new one to the synthesizer in its place:
\* this is the case of an utterance whose onstart has not fired yet, and of one that is
\* being spoken after the end event of a cancelled utterance reset the flag.
C9_AtMostOneUtterance ==
  [][/\ Len(synthQueue') <= 1
     /\ NarrationRequest
          => IF speaking
             THEN synthCalls' = << >> /\ synthQueue' = synthQueue
             ELSE /\ Len(synthCalls') = 2
                  /\ synthCalls'[1] = CancelCall(synthQueue)
                  /\ synthCalls'[2].call = "speak"
                  /\ synthQueue' = <<[started |-> FALSE]>>
                  /\ synthLate' = synthLate + Len(synthQueue)]_vars

\* A narration request was made while an utterance was in flight and the speaking flag
\* was false: the utterance was cancelled and the new one took its place.
C9_Witness ==
  /\ Len(synthCalls) = 2
  /\ synthCalls[1] = [call |-> "cancel", removed |-> 1]
  /\ synthCalls[2].call = "speak"
  /\ synthQueue = <<[started |-> FALSE]>>
  /\ synthLate > 0

(***************************************************************************)
(* C10. The stored itinerary and the first route candidate.                *)
(***************************************************************************)
\* C10: after every successful response, the stored distance and duration are the
\* top-level distance and duration of the first route candidate, and the stored steps
\* are not empty if a leg of the first candidate has a step.
C10_FirstCandidateVerbatim ==
  [][(received' # null /\ received'.ok)
       => /\ routeInfo' # null
          /\ routeInfo'.distance = received'.route.distance
          /\ routeInfo'.duration = received'.route.duration
          /\ LegsHaveStep(received'.route) => Len(routeInfo'.steps) > 0]_vars

\* A response with two candidates was stored: the distance of the itinerary is the one
\* of the first candidate, and differs from the sum of the distances of its steps.
C10_Witness ==
  /\ received # null
  /\ received.ok
  /\ received.candidates = 2
  /\ routeInfo # null
  /\ routeInfo.distance = received.route.distance
  /\ Len(routeInfo.steps) > 0
  /\ SumDistance(routeInfo.steps) # routeInfo.distance

(***************************************************************************)
(* C11. The steps of the itinerary, in the order of the service.           *)
(***************************************************************************)
\* The legs of a route of the service, and the number of steps of a leg.
RouteLegs(route) == IF "legs" \in DOMAIN route THEN route.legs ELSE << >>

LegStepCount(leg) == IF "steps" \in DOMAIN leg THEN Len(leg.steps) ELSE 0

\* The number of steps in the legs before leg i.
RECURSIVE StepsBefore(_, _)
StepsBefore(legs, i) ==
  IF i <= 1 THEN 0 ELSE StepsBefore(legs, i - 1) + LegStepCount(legs[i - 1])

\* C11: the steps of the stored itinerary are the steps of the legs of the response's
\* first route, leg after leg and in each leg's order: as many as the legs have
\* together, step j of leg i at position (steps of the legs before i) + j with its
\* distance, duration and maneuver type; a leg without a steps field adds none.
C11_StepsInServiceOrder ==
  (received # null /\ received.ok)
    => LET legs == RouteLegs(received.route)
       IN  /\ routeInfo # null
           /\ Len(routeInfo.steps) = StepsBefore(legs, Len(legs) + 1)
           /\ \A i \in 1..Len(legs) : \A j \in 1..LegStepCount(legs[i]) :
                LET stored == routeInfo.steps[StepsBefore(legs, i) + j]
                    raw == legs[i].steps[j]
                IN  /\ stored.distance = raw.distance
                    /\ stored.duration = raw.duration
                    /\ stored.maneuver.type = OrElse(ManeuverProp(raw, "type"), "continue")

\* A route of three legs was stored: a leg with the same step twice, a leg without a
\* steps field and a leg with two steps give four steps.
C11_Witness ==
  /\ received # null
  /\ received.ok
  /\ RouteLegs(received.route) =
       << [steps |-> <<StepTurn, StepTurn>>], [summary |-> ""],
          [steps |-> <<StepPlain, StepDepart>>] >>
  /\ routeInfo # null
  /\ Len(routeInfo.steps) = 4
  /\ routeInfo.steps[1] = routeInfo.steps[2]
  /\ routeInfo.steps[3].distance = StepPlain.distance

(***************************************************************************)
(* C12. formatManeuver is total.                                           *)
(***************************************************************************)
\* The step of the service that is at position p of the steps of the legs.
RawStepAt(legs, p) ==
  LET i == CHOOSE n \in 1..Len(legs) :
             StepsBefore(legs, n) < p /\ p <= StepsBefore(legs, n) + LegStepCount(legs[n])
  IN  legs[i].steps[p - StepsBefore(legs, i)]

\* The step carries an instruction text of the service.
HasServiceText(raw) == Truthy(ManeuverProp(raw, "instruction"))

\* What formatManeuver is called with for a step.
ManeuverInput(raw) ==
  <<ManeuverProp(raw, "type"), ManeuverProp(raw, "modifier"), Prop(raw, "name")>>

\* C12: every step of the response without an instruction text of the service is
\* stored with a non-empty instruction, whatever its maneuver type (a known one, an
\* unknown one, none), its modifier (present or not) and its road name (present, empty
\* or absent); steps with the same type, modifier and road name get the same one.
C12_InstructionTotal ==
  (received # null /\ received.ok /\ routeInfo # null)
    => LET legs == RouteLegs(received.route)
       IN  \A p \in 1..Len(routeInfo.steps) :
             ~HasServiceText(RawStepAt(legs, p))
               => /\ routeInfo.steps[p].instruction # ""
                  /\ \A q \in 1..Len(routeInfo.steps) :
                       (/\ ~HasServiceText(RawStepAt(legs, q))
                        /\ ManeuverInput(RawStepAt(legs, q)) = ManeuverInput(RawStepAt(legs, p)))
                         => routeInfo.steps[q].instruction = routeInfo.steps[p].instruction

\* A step without maneuver and without road name was stored: formatManeuver was called
\* with three undefined arguments.
C12_Witness ==
  /\ received # null
  /\ received.ok
  /\ RouteLegs(received.route) = << [steps |-> << [distance |-> 120, duration |-> 30] >>] >>
  /\ routeInfo # null
  /\ routeInfo.steps[1].instruction = "Continue"

(***************************************************************************)
(* C13. The instruction and the maneuver type of a stored step.            *)
(***************************************************************************)
\* The maneuver types that have a case of their own in formatManeuver.
KnownManeuverTypes ==
  {"depart", "arrive", "turn", "continue", "new name", "merge", "on ramp", "off ramp",
   "fork", "end of road", "roundabout", "rotary"}

\* The generic instruction, with the road name when there is one.
GenericInstruction(name) ==
  IF name = Undefined \/ name = "" THEN "Continue" ELSE "Continue onto " \o name

\* C13: the instruction of every stored step is the instruction text of the service
\* when the step carries a non-empty one, and the text formatManeuver gives for its
\* type, modifier and road name otherwise, which is the generic "Continue" text when
\* the type is not a known one or is missing; the stored maneuver type is the type
\* received, 'continue' when none was received.
C13_InstructionSource ==
  (received # null /\ received.ok /\ routeInfo # null)
    => LET legs == RouteLegs(received.route)
       IN  \A p \in 1..Len(routeInfo.steps) :
             LET raw == RawStepAt(legs, p)
                 stored == routeInfo.steps[p]
                 type == ManeuverProp(raw, "type")
             IN  /\ HasServiceText(raw) => stored.instruction = raw.maneuver.instruction
                 /\ ~HasServiceText(raw)
                      => stored.instruction =
                           formatManeuver(type, ManeuverProp(raw, "modifier"), Prop(raw, "name"))
                 /\ (~HasServiceText(raw) /\ type \notin KnownManeuverTypes)
                      => stored.instruction = GenericInstruction(Prop(raw, "name"))
                 /\ stored.maneuver.type = (IF type = Undefined THEN "continue" ELSE type)

\* A step of a type formatManeuver does not know, on a named road and without a text
\* of the service, was stored.
C13_Witness ==
  /\ received # null
  /\ received.ok
  /\ routeInfo # null
  /\ Len(routeInfo.steps) = 1
  /\ ~HasServiceText(RawStepAt(RouteLegs(received.route), 1))
  /\ ManeuverInput(RawStepAt(RouteLegs(received.route), 1))
       = <<"notification", Undefined, "Mall Road">>
  /\ routeInfo.steps[1].instruction = "Continue onto Mall Road"
  /\ routeInfo.steps[1].maneuver.type = "notification"

(***************************************************************************)
(* C14. The text of a distance.                                            *)
(***************************************************************************)
\* n tenths of a kilometre, written with one decimal digit.
Tenths(n) == ToString(n \div 10) \o "." \o ToString(n % 10) \o " km"

\* C14: the panel shows the distance of the itinerary, a whole number of meters m, as
\* "<m> m" when m < 1000, and when m >= 1000 as a number of kilometres with one decimal
\* digit, at most 50 m away from m, followed by " km"; 950 gives "950 m", 1500 gives
\* "1.5 km", and the text is never "1000 m".
C14_DistanceText ==
  ItineraryShown
    => LET m == routeInfo.distance
       IN  /\ m < 1000 => PanelDistance = ToString(m) \o " m"
           /\ m >= 1000
                => \E n \in ((m - 50) \div 100)..((m + 50) \div 100) :
                     /\ 100 * n - 50 <= m
                     /\ m <= 100 * n + 50
                     /\ PanelDistance = Tenths(n)
           /\ m = 950 => PanelDistance = "950 m"
           /\ m = 1500 => PanelDistance = "1.5 km"
           /\ PanelDistance # "1000 m"

\* An itinerary of 1000 m is shown, as "1.0 km".
C14_Witness ==
  /\ ItineraryShown
  /\ routeInfo.distance = 1000
  /\ PanelDistance = "1.0 km"

(***************************************************************************)
(* C15. The text of a duration.                                            *)
(***************************************************************************)
\* C15: the panel shows the duration of the itinerary, a whole number of seconds
\* s = 3600 h + 60 m + r with m and r in 0..59, as "<h>h <m>m" when h > 0 and as
\* "<m> min" when h = 0: the seconds r left over are dropped; 125 gives "2 min", 4000
\* gives "1h 6m".
C15_DurationText ==
  ItineraryShown
    => LET sec == routeInfo.duration
       IN  /\ \E h \in 0..(sec \div 3600) : \E m \in 0..59 :
                /\ (sec - 3600 * h - 60 * m) \in 0..59
                /\ PanelDuration = (IF h > 0
                                    THEN ToString(h) \o "h " \o ToString(m) \o "m"
                                    ELSE ToString(m) \o " min")
           /\ sec = 125 => PanelDuration = "2 min"
           /\ sec = 4000 => PanelDuration = "1h 6m"

\* An itinerary of 3599 seconds is shown, as "59 min": the 59 seconds left over are
\* dropped.
C15_Witness ==
  /\ ItineraryShown
  /\ routeInfo.duration = 3599
  /\ PanelDuration = "59 min"

(***************************************************************************)
(* C16. One request for every change of the start, the end or the mode.    *)
(***************************************************************************)
\* A click on the map or on a city marker that sets a point.
PointClick ==
  \/ /\ isRoutingMode
     /\ selectingPoint # NoPoint
     /\ \E lngLat \in MapClickCoords : handleMapClick(lngLat)
  \/ /\ markersOf.isRoutingMode
     /\ markersOf.selectingPoint # NoPoint
     /\ \E city \in CitiesClicked : cityClick(city)

\* The start point, the end point or the travel mode changes: a click sets a point
\* (to the same coordinates or not), a point is cleared, or another mode is chosen.
TripleChange ==
  \/ PointClick
  \/ startPoint' # startPoint
  \/ endPoint' # endPoint
  \/ travelMode' # travelMode

\* C16: a change of the start point, the end point or the travel mode that leaves both
\* points set sends exactly one request, for the new (start, end, mode); a step that
\* leaves a point unset sends none.
C16_OneRequestPerChange ==
  [][/\ (TripleChange /\ BothSet')
          => fetched' = <<RouteUrl(travelMode', startPoint', endPoint')>>
     /\ ~BothSet' => fetched' = << >>]_vars

\* The end point was set again by a click, to the coordinates it had: the request of
\* the click is the one just sent, behind an equal one still in flight.
C16_Witness ==
  /\ BothSet
  /\ selectingPoint = NoPoint
  /\ Len(inflight) = 2
  /\ inflight[1] = inflight[2]
  /\ fetched = <<inflight[2]>>
  /\ fetched = <<CurrentUrl>>

(***************************************************************************)
(* C17. No request is sent again automatically.                            *)
(***************************************************************************)
\* C17: a step sends at most one request, and only when the user changes the start
\* point, the end point or the travel mode; the requests in flight are those sent and
\* not answered; the arrival of a response, failed or not, sends no request.
C17_NoAutomaticRetry ==
  [][/\ Len(fetched') <= 1
     /\ fetched' # << >> => TripleChange
     /\ received' = null => inflight' = inflight \o fetched'
     /\ received' # null => (fetched' = << >> /\ Len(inflight') = Len(inflight) - 1)]_vars

\* The only build failed: nothing is in flight and no request was sent on the failure.
C17_Witness ==
  /\ Failed(received)
  /\ BothSet
  /\ fetched = << >>
  /\ inflight = << >>
  /\ routeSource = null

(***************************************************************************)
(* C18. The itinerary is stored whole.                                     *)
(***************************************************************************)
\* The four fields of the itinerary are those of the route.
FromOneRoute(info, route) ==
  LET legs == RouteLegs(route)
  IN  /\ info.distance = route.distance
      /\ info.duration = route.duration
      /\ info.geometry = route.geometry
      /\ Len(info.steps) = StepsBefore(legs, Len(legs) + 1)
      /\ \A p \in 1..Len(info.steps) :
           /\ info.steps[p].distance = RawStepAt(legs, p).distance
           /\ info.steps[p].duration = RawStepAt(legs, p).duration

\* C18: routeInfo is null or a record of distance, duration, geometry and steps; a
\* step that changes it sets it to null or to the itinerary of the response that
\* arrives, whose four fields are those of the first route of that response.
C18_StoredWhole ==
  [][/\ Complete(routeInfo')
     /\ routeInfo' # routeInfo
          => \/ routeInfo' = null
             \/ /\ received' # null
                /\ received'.ok
                /\ FromOneRoute(routeInfo', received'.route)]_vars

\* After a change of the travel mode, the response of the new request replaced the
\* itinerary: the one stored is the walking route, with its own steps.
C18_Witness ==
  /\ received # null
  /\ received.ok
  /\ received.candidates = 2
  /\ travelMode = "walking"
  /\ routeInfo # null
  /\ ProfileOfGeometry(routeInfo.geometry) = "foot"
  /\ FromOneRoute(routeInfo, received.route)

(***************************************************************************)
(* C20. Resetting the route.                                               *)
(***************************************************************************)
\* clearRoute runs: the Clear Route button, or the switch of routing mode to off.
ClearRouteRuns == clearRouteClick \/ (isRoutingMode /\ toggleRoutingMode)

\* After clearRoute, but for selectingPoint.
RouteCleared ==
  /\ startPoint' = null
  /\ endPoint' = null
  /\ routeInfo' = null
  /\ ~showSteps'
  /\ synthQueue' = << >>
  /\ ~speaking'

\* C20 as stated: after clearRoute both points and routeInfo are null, the step list
\* is hidden, selectingPoint is "start", no utterance is in flight and the speaking
\* flag is false.
C20_ClearRouteResets ==
  [][ClearRouteRuns => (RouteCleared /\ selectingPoint' = "start")]_vars

\* C20 as amended: after clearRoute both points and routeInfo are null, the step list
\* is hidden, no utterance is in flight and the speaking flag is false; selectingPoint
\* is "start" after the Clear Route button, and null after routing mode was switched
\* off, where toggleRoutingMode sets it to null after its call of clearRoute.
C20_ClearRouteResetsPoints ==
  [][/\ ClearRouteRuns => RouteCleared
     /\ clearRouteClick => selectingPoint' = "start"
     /\ (isRoutingMode /\ toggleRoutingMode) => selectingPoint' = NoPoint]_vars

\* Clear Route was clicked while an utterance was being spoken: the utterance is
\* cancelled and the flag is false.
C20_Witness ==
  /\ isRoutingMode
  /\ startPoint = null
  /\ endPoint = null
  /\ routeInfo = null
  /\ selectingPoint = "start"
  /\ synthCalls = <<[call |-> "cancel", removed |-> 1]>>
  /\ synthQueue = << >>
  /\ ~speaking
  /\ enabled

(***************************************************************************)
(* C19. The step cursor moves only by selection of a step and by reset.    *)
(***************************************************************************)
\* C19: a step that changes currentStepIndex is goToStep, which sets it to the index
\* selected, or runs clearRoute, which sets it to 0; a map click, a change of mode, a
\* routing response, the voice toggle, a geolocation callback, a style change and
\* every other task leave it unchanged.
C19_CursorMovesBySelection ==
  [][currentStepIndex' # currentStepIndex
       => \/ /\ showSteps
             /\ routeInfo # null
             /\ currentStepIndex' \in StepIndices
             /\ goToStep(currentStepIndex')
          \/ /\ ClearRouteRuns
             /\ currentStepIndex' = 0]_vars

\* The cursor is on the second step of an itinerary that a response replaced, while
\* the browser reported no position and the style of the map was changed.
C19_Witness ==
  /\ currentStepIndex = 1
  /\ routeInfo # null
  /\ received # null
  /\ received.ok
  /\ locationError \in PositionErrors
  /\ activeStyle = "satellite"
  /\ redrawTimers # << >>

(***************************************************************************)
(* C21. The geolocation request.                                           *)
(***************************************************************************)
\* C21: without geolocation the button sets locationError and isLocating stays
\* false; with it, a request sets isLocating and clears locationError, isLocating is
\* true exactly while the request has not called back, the success callback sets it
\* to false and leaves locationError, and the failure callback sets it to false and
\* locationError to the reason the platform gives.
C21_LocateContained ==
  [][/\ isLocating' <=> locating' > 0
     /\ locating' <= 1
     /\ locating' > locating => (geolocation /\ ~isLocating /\ locationError' = NoError)
     /\ locating' < locating
          => /\ ~isLocating'
             /\ \/ locationError' = locationError
                \/ locationError' \in PositionErrors
     /\ (\E message \in PositionErrors : locateError(message))
          => locationError' \in PositionErrors
     /\ (handleLocateUser /\ ~geolocation)
          => /\ locationError' = "Geolocation is not supported"
             /\ ~isLocating'
             /\ locating' = 0
     /\ (handleLocateUser /\ geolocation) => isLocating']_vars

\* A request failed after the planner had stored an itinerary: the reason is kept and
\* the button is enabled again.
C21_Witness ==
  /\ geolocation
  /\ ~isLocating
  /\ locating = 0
  /\ locationError \in PositionErrors
  /\ routeInfo # null

(***************************************************************************)
(* C22. The calculating indicator and the requests in flight.              *)
(***************************************************************************)
\* C22: isCalculatingRoute is true if and only if at least one routing request is in
\* flight.
C22_CalculatingIffInFlight == isCalculatingRoute <=> inflight # << >>

(***************************************************************************)
(* C23. The step cursor is an index of the itinerary.                      *)
(***************************************************************************)
\* C23: whenever routeInfo is non-null and has at least one step, currentStepIndex is
\* an index of its steps: 0 <= currentStepIndex < routeInfo.steps.length.
C23_CursorIsValidIndex ==
  (routeInfo # null /\ Len(routeInfo.steps) > 0)
    => (0 <= currentStepIndex /\ currentStepIndex < Len(routeInfo.steps))

(***************************************************************************)
(* C24. The route line and the itinerary.                                  *)
(***************************************************************************)
\* C24: the "route" source and its layers are on the map only if routeInfo is
\* non-null, and then with the geometry of routeInfo.
C24_LineAgreesWithItinerary ==
  routeSource # null => (routeInfo # null /\ routeSource = routeInfo.geometry)

(***************************************************************************)
(* C25. Point selection once both points are set.                          *)
(***************************************************************************)
\* C25: with both points set selectingPoint is null; selectingPoint is "start" only
\* while startPoint is null, and "end" only while endPoint is null.
C25_SelectionInactiveWhenBothSet ==
  /\ BothSet => selectingPoint = NoPoint
  /\ selectingPoint = "start" => startPoint = null
  /\ selectingPoint = "end" => endPoint = null

(***************************************************************************)
(* C26. Routing mode off.                                                  *)
(***************************************************************************)
\* The routing state the planner starts with: no point, no selection, cursor 0.
RoutingStateEmpty ==
  /\ startPoint = null
  /\ endPoint = null
  /\ selectingPoint = NoPoint
  /\ currentStepIndex = 0

\* A click on the map or on a city marker.
AnyClick ==
  \/ \E lngLat \in MapClickCoords : handleMapClick(lngLat)
  \/ \E city \in CitiesClicked : cityClick(city)

Spoken == synthQueue # << >> /\ Head(synthQueue).started

\* C27: the speaking flag is true exactly while an utterance is being spoken, and the
\* late end or error event of a cancelled utterance does not set it to false while a
\* newer utterance is being spoken.
C27_FlagTracksSynthesizer ==
  [][/\ speaking' <=> Spoken'
     /\ (LateUtteranceEvent /\ Spoken) => speaking']_vars

====
